---- MODULE Spec2Model ----
(***************************************************************************)
(* A model of the SOW reviewer: text normalisation and section            *)
(* segmentation (extractor.py), the rule engine (nlp_rules.py) and the     *)
(* scoring functions (reporter.py).  A text is a sequence of one-character *)
(* strings; the regular expressions of the source are compiled to item     *)
(* sequences and matched with Python's greedy, backtracking semantics.     *)
(***************************************************************************)
EXTENDS Integers, Sequences, FiniteSets, TLC

VARIABLES file_path, file, text, pc, full_text, sections, issues, weights,
          summary, risk_score, raised

vars == <<file_path, file, text, pc, full_text, sections, issues, weights,
          summary, risk_score, raised>>

\* Python's None where a string is expected (no text is <<"None">>: the
\* elements of a text are single characters), and the value of a variable
\* that has not been assigned yet.
None == <<"None">>

\* No weights argument (weights=None), and no exception.
NoWeights == [None |-> TRUE]

NoException == "None"

\* current_section = None: no section is open.
NoSection == "None"

(***************************************************************************)
(* Characters and character classes.                                       *)
(***************************************************************************)
UpperLetters == <<"A","B","C","D","E","F","G","H","I","J","K","L","M","N","O","P","Q","R","S","T","U","V","W","X","Y","Z">>

LowerLetters == <<"a","b","c","d","e","f","g","h","i","j","k","l","m","n","o","p","q","r","s","t","u","v","w","x","y","z">>

Digits == {"0","1","2","3","4","5","6","7","8","9"}

\* \s of the re module, restricted to the characters texts are built from.
Whitespace == {" ", "\t", "\n"}

\* \w of the re module: letters, digits and the underscore.
WordChars == {UpperLetters[i] : i \in 1..26} \cup {LowerLetters[i] : i \in 1..26} \cup Digits \cup {"_"}

\* The punctuation the character filter of clean_text keeps.
SafePunctuation == {".", ",", ";", ":", "!", "?", "-", "(", ")", "[", "]", "{", "}"}

ToLower == [c \in {UpperLetters[i] : i \in 1..26} |-> LowerLetters[CHOOSE i \in 1..26 : UpperLetters[i] = c]]

ToUpper == [c \in {LowerLetters[i] : i \in 1..26} |-> UpperLetters[CHOOSE i \in 1..26 : LowerLetters[i] = c]]

\* str.lower() on one character, and on a string.
LowerChar(c) == IF c \in DOMAIN ToLower THEN ToLower[c] ELSE c

lower(s) == [i \in 1..Len(s) |-> LowerChar(s[i])]

(***************************************************************************)
(* Regular expressions.  A pattern is a sequence of items.  A "lit" item   *)
(* is a literal string, the other kinds are character classes; an item     *)
(* matches between min and max times (max = -1: no upper limit).           *)
(***************************************************************************)
Item(kind, c, lo, hi) == [kind |-> kind, ch |-> c, min |-> lo, max |-> hi]

One(kind, c) == <<Item(kind, c, 1, 1)>>

Opt(kind, c) == <<Item(kind, c, 0, 1)>>

Plus(kind, c) == <<Item(kind, c, 1, -1)>>

Rep(kind, c, n) == <<Item(kind, c, n, n)>>

Lit(s) == <<Item("lit", s, 1, 1)>>

\* The characters one repetition of the item takes.
Width(it) == IF it.kind = "lit" THEN Len(it.ch) ELSE 1

\* Whether one repetition of the item matches at position i of s; ic is the
\* IGNORECASE flag.
CharMatches(it, s, i, ic) ==
    CASE it.kind = "lit"   -> /\ i + Len(it.ch) - 1 <= Len(s)
                              /\ \A k \in 1..Len(it.ch) :
                                    IF ic THEN LowerChar(s[i + k - 1]) = LowerChar(it.ch[k])
                                    ELSE s[i + k - 1] = it.ch[k]
      [] it.kind = "Space" -> i <= Len(s) /\ s[i] \in Whitespace
      [] it.kind = "Digit" -> i <= Len(s) /\ s[i] \in Digits
      [] it.kind = "Word"  -> i <= Len(s) /\ s[i] \in WordChars

\* The most repetitions of the item that match from position i on.
RECURSIVE MaxRun(_, _, _, _, _)
MaxRun(it, s, i, ic, n) ==
    IF (it.max = -1 \/ n < it.max) /\ CharMatches(it, s, i + n * Width(it), ic)
    THEN MaxRun(it, s, i, ic, n + 1)
    ELSE n

\* Items k.. of pat matched at position i of s: <<i, e_k, ..., e_n>> with e_j
\* the position after item j, or <<>> when there is no match.  A quantified
\* item is greedy: the longest run first, then shorter ones (backtracking).
RECURSIVE MatchItems(_, _, _, _, _)
RECURSIVE TryRuns(_, _, _, _, _, _)
TryRuns(pat, k, s, i, ic, n) ==
    IF n < pat[k].min THEN <<>>
    ELSE LET rest == MatchItems(pat, k + 1, s, i + n * Width(pat[k]), ic)
         IN  IF rest # <<>> THEN <<i>> \o rest
             ELSE TryRuns(pat, k, s, i, ic, n - 1)

MatchItems(pat, k, s, i, ic) ==
    IF k > Len(pat) THEN <<i>>
    ELSE TryRuns(pat, k, s, i, ic, MaxRun(pat[k], s, i, ic, 0))

\* re.match(pattern, s): a match at the start of s, or <<>>.
re_match(pat, s, ic) == MatchItems(pat, 1, s, 1, ic)

\* The least element of a non-empty set of positions.
Least(S) == CHOOSE i \in S : \A j \in S : i <= j

\* re.search(pattern, s): the match at the leftmost position that has one, or <<>>.
re_search(pat, s, ic) ==
    LET starts == {i \in 1..(Len(s) + 1) : MatchItems(pat, 1, s, i, ic) # <<>>}
    IN  IF starts = {} THEN <<>> ELSE MatchItems(pat, 1, s, Least(starts), ic)

\* m.end() as a position of s, and m.group(0).
MatchEnd(m) == m[Len(m)]

Group0(s, m) == SubSeq(s, m[1], MatchEnd(m) - 1)

\* m.group(1) for a pattern whose group spans items g[1]..g[2].
Group1(s, m, g) == SubSeq(s, m[g[1]], m[g[2] + 1] - 1)

(***************************************************************************)
(* str.find, str.split, str.join and str.strip.                            *)
(***************************************************************************)
\* The first position from i on at which sub occurs in s, 0 when there is none.
FindSep(s, sub, i) ==
    LET hits == {j \in i..(Len(s) - Len(sub) + 1) : SubSeq(s, j, j + Len(sub) - 1) = sub}
    IN  IF hits = {} THEN 0 ELSE Least(hits)

\* s.split(sep): always at least one piece.
RECURSIVE split(_, _)
split(s, sep) ==
    LET i == FindSep(s, sep, 1)
    IN  IF i = 0 THEN <<s>>
        ELSE <<SubSeq(s, 1, i - 1)>> \o split(SubSeq(s, i + Len(sep), Len(s)), sep)

\* sep.join(parts).
RECURSIVE join(_, _)
join(sep, parts) ==
    IF parts = <<>> THEN <<>>
    ELSE IF Len(parts) = 1 THEN parts[1]
    ELSE parts[1] \o sep \o join(sep, Tail(parts))

\* s.strip(): s without its leading and trailing whitespace.
strip(s) ==
    LET inked == {i \in 1..Len(s) : s[i] \notin Whitespace}
    IN  IF inked = {} THEN <<>>
        ELSE SubSeq(s, Least(inked), CHOOSE i \in inked : \A j \in inked : j <= i)

(***************************************************************************)
(* extractor.py: TextExtractor.clean_text.                                 *)
(***************************************************************************)
\* self.common_headers
common_headers ==
    << Lit(<<"p","a","g","e"," ">>) \o Plus("Digit", <<>>) \o Lit(<<" ","o","f"," ">>) \o Plus("Digit", <<>>),   \* r'page \d+ of \d+'
       Lit(<<"c","o","n","f","i","d","e","n","t","i","a","l">>),   \* r'confidential'
       Lit(<<"d","r","a","f","t">>),   \* r'draft'
       Lit(<<"v","e","r","s","i","o","n"," ">>) \o Plus("Digit", <<>>) \o Lit(<<".">>) \o Plus("Digit", <<>>),   \* r'version \d+\.\d+'
       Lit(<<"©"," ">>) \o Rep("Digit", <<>>, 4),   \* r'© \d{4}'
       Lit(<<"p","r","o","p","r","i","e","t","a","r","y">>) >>   \* r'proprietary'

\* self.common_footers
common_footers ==
    << Lit(<<"p","a","g","e"," ">>) \o Plus("Digit", <<>>),   \* r'page \d+'
       Lit(<<"p","r","e","p","a","r","e","d"," ","b","y",":">>),   \* r'prepared by:'
       Lit(<<"a","p","p","r","o","v","e","d"," ","b","y",":">>),   \* r'approved by:'
       Lit(<<"d","a","t","e",":">>),   \* r'date:'
       Lit(<<"r","e","v","i","s","i","o","n",":">>) >>   \* r'revision:'

\* A filter that looks for the header patterns only.
is_header_footer_headers_only(line) ==
    \E p \in 1..Len(common_headers) : re_search(common_headers[p], lower(line), FALSE) # <<>>

\* _is_header_footer: some header or footer pattern occurs in the lowered line.
is_header_footer(line) ==
    LET line_lower == lower(line)
    IN  \/ \E p \in 1..Len(common_headers) : re_search(common_headers[p], line_lower, FALSE) # <<>>
        \/ \E p \in 1..Len(common_footers) : re_search(common_footers[p], line_lower, FALSE) # <<>>

\* re.sub(r'[ \t]+', ' ', s): every run of spaces and tabs becomes one space.
collapse_spaces(s) ==
    LET blank(i) == s[i] \in {" ", "\t"}
        kept == SelectSeq([i \in 1..Len(s) |-> i], LAMBDA i : ~(blank(i) /\ i > 1 /\ blank(i - 1)))
    IN  [k \in 1..Len(kept) |-> IF blank(kept[k]) THEN " " ELSE s[kept[k]]]

\* re.sub(r'[^\w\s\.\,\;\:\!\?\-\(\)\[\]\{\}\n]', '', s).
remove_special(s) == SelectSeq(s, LAMBDA c : c \in WordChars \cup Whitespace \cup SafePunctuation)

clean_text(t) ==
    IF t = <<>> THEN <<>>
    ELSE LET lines == split(t, <<"\n">>)
             stripped == [i \in 1..Len(lines) |-> strip(lines[i])]
             cleaned_lines == SelectSeq(stripped, LAMBDA line : line # <<>> /\ ~is_header_footer(line))
             joined == join(<<"\n">>, cleaned_lines)
         IN  strip(remove_special(collapse_spaces(joined)))

(***************************************************************************)
(* extractor.py: TextExtractor.extract_sections.                           *)
(***************************************************************************)
\* The keys of the sections dictionary, in insertion order.
SectionNames ==
    <<"project_overview",
      "scope",
      "timeline",
      "materials",
      "costs",
      "payment_terms",
      "deliverables",
      "quality_standards",
      "legal_clauses">>

\* sections = {'project_overview': '', ..., 'legal_clauses': ''}
EmptySections == [name \in {SectionNames[i] : i \in 1..Len(SectionNames)} |-> <<>>]

\* section_headers: for each section, in dictionary order, its header patterns.
section_headers ==
    << [name |-> "project_overview", patterns |-> <<
         Lit(<<"p","r","o","j","e","c","t">>) \o Plus("Space", <<>>) \o Lit(<<"o","v","e","r","v","i","e","w">>),   \* r'project\s+overview'
         Lit(<<"i","n","t","r","o","d","u","c","t","i","o","n">>),   \* r'introduction'
         Lit(<<"b","a","c","k","g","r","o","u","n","d">>),   \* r'background'
         Lit(<<"p","u","r","p","o","s","e">>),   \* r'purpose'
         Lit(<<"p","r","o","j","e","c","t">>) \o Plus("Space", <<>>) \o Lit(<<"d","e","s","c","r","i","p","t","i","o","n">>) >>],   \* r'project\s+description'
       [name |-> "scope", patterns |-> <<
         Lit(<<"s","c","o","p","e">>) \o Plus("Space", <<>>) \o Lit(<<"o","f">>) \o Plus("Space", <<>>) \o Lit(<<"w","o","r","k">>),   \* r'scope\s+of\s+work'
         Lit(<<"s","c","o","p","e">>),   \* r'scope'
         Lit(<<"w","o","r","k">>) \o Plus("Space", <<>>) \o Lit(<<"s","c","o","p","e">>),   \* r'work\s+scope'
         Lit(<<"p","r","o","j","e","c","t">>) \o Plus("Space", <<>>) \o Lit(<<"s","c","o","p","e">>),   \* r'project\s+scope'
         Lit(<<"s","t","a","t","e","m","e","n","t">>) \o Plus("Space", <<>>) \o Lit(<<"o","f">>) \o Plus("Space", <<>>) \o Lit(<<"w","o","r","k">>) >>],   \* r'statement\s+of\s+work'
       [name |-> "timeline", patterns |-> <<
         Lit(<<"t","i","m","e","l","i","n","e">>),   \* r'timeline'
         Lit(<<"s","c","h","e","d","u","l","e">>),   \* r'schedule'
         Lit(<<"d","u","r","a","t","i","o","n">>),   \* r'duration'
         Lit(<<"d","e","a","d","l","i","n","e">>),   \* r'deadline'
         Lit(<<"m","i","l","e","s","t","o","n","e">>),   \* r'milestone'
         Lit(<<"p","r","o","j","e","c","t">>) \o Plus("Space", <<>>) \o Lit(<<"s","c","h","e","d","u","l","e">>),   \* r'project\s+schedule'
         Lit(<<"t","i","m","e">>) \o Plus("Space", <<>>) \o Lit(<<"f","r","a","m","e">>) >>],   \* r'time\s+frame'
       [name |-> "materials", patterns |-> <<
         Lit(<<"m","a","t","e","r","i","a","l","s">>),   \* r'materials'
         Lit(<<"e","q","u","i","p","m","e","n","t">>),   \* r'equipment'
         Lit(<<"s","u","p","p","l","i","e","s">>),   \* r'supplies'
         Lit(<<"r","e","s","o","u","r","c","e","s">>),   \* r'resources'
         Lit(<<"m","a","t","e","r","i","a","l">>) \o Plus("Space", <<>>) \o Lit(<<"r","e","q","u","i","r","e","m","e","n","t","s">>) >>],   \* r'material\s+requirements'
       [name |-> "costs", patterns |-> <<
         Lit(<<"c","o","s","t">>) \o Opt("lit", <<"s">>),   \* r'costs?'
         Lit(<<"b","u","d","g","e","t">>),   \* r'budget'
         Lit(<<"p","r","i","c","i","n","g">>),   \* r'pricing'
         Lit(<<"e","s","t","i","m","a","t","e">>),   \* r'estimate'
         Lit(<<"f","i","n","a","n","c","i","a","l">>),   \* r'financial'
         Lit(<<"c","o","s","t">>) \o Plus("Space", <<>>) \o Lit(<<"b","r","e","a","k","d","o","w","n">>),   \* r'cost\s+breakdown'
         Lit(<<"b","u","d","g","e","t","a","r","y">>) >>],   \* r'budgetary'
       [name |-> "payment_terms", patterns |-> <<
         Lit(<<"p","a","y","m","e","n","t">>) \o Plus("Space", <<>>) \o Lit(<<"t","e","r","m">>) \o Opt("lit", <<"s">>),   \* r'payment\s+terms?'
         Lit(<<"p","a","y","m","e","n","t">>),   \* r'payment'
         Lit(<<"i","n","v","o","i","c","e">>),   \* r'invoice'
         Lit(<<"b","i","l","l","i","n","g">>),   \* r'billing'
         Lit(<<"p","a","y","m","e","n","t">>) \o Plus("Space", <<>>) \o Lit(<<"s","c","h","e","d","u","l","e">>) >>],   \* r'payment\s+schedule'
       [name |-> "deliverables", patterns |-> <<
         Lit(<<"d","e","l","i","v","e","r","a","b","l","e">>) \o Opt("lit", <<"s">>),   \* r'deliverables?'
         Lit(<<"o","u","t","p","u","t">>),   \* r'output'
         Lit(<<"r","e","s","u","l","t">>),   \* r'result'
         Lit(<<"p","r","o","d","u","c","t">>),   \* r'product'
         Lit(<<"d","e","l","i","v","e","r","y">>) >>],   \* r'delivery'
       [name |-> "quality_standards", patterns |-> <<
         Lit(<<"q","u","a","l","i","t","y">>) \o Plus("Space", <<>>) \o Lit(<<"s","t","a","n","d","a","r","d">>) \o Opt("lit", <<"s">>),   \* r'quality\s+standards?'
         Lit(<<"q","u","a","l","i","t","y">>),   \* r'quality'
         Lit(<<"s","t","a","n","d","a","r","d">>),   \* r'standard'
         Lit(<<"s","p","e","c","i","f","i","c","a","t","i","o","n">>),   \* r'specification'
         Lit(<<"r","e","q","u","i","r","e","m","e","n","t">>),   \* r'requirement'
         Lit(<<"q","u","a","l","i","t","y">>) \o Plus("Space", <<>>) \o Lit(<<"a","s","s","u","r","a","n","c","e">>) >>],   \* r'quality\s+assurance'
       [name |-> "legal_clauses", patterns |-> <<
         Lit(<<"l","e","g","a","l">>) \o Plus("Space", <<>>) \o Lit(<<"c","l","a","u","s","e">>) \o Opt("lit", <<"s">>),   \* r'legal\s+clauses?'
         Lit(<<"l","e","g","a","l">>),   \* r'legal'
         Lit(<<"c","l","a","u","s","e">>),   \* r'clause'
         Lit(<<"l","i","a","b","i","l","i","t","y">>),   \* r'liability'
         Lit(<<"w","a","r","r","a","n","t","y">>),   \* r'warranty'
         Lit(<<"i","n","d","e","m","n","i","f","i","c","a","t","i","o","n">>),   \* r'indemnification'
         Lit(<<"t","e","r","m","s">>) \o Plus("Space", <<>>) \o Lit(<<"a","n","d">>) \o Plus("Space", <<>>) \o Lit(<<"c","o","n","d","i","t","i","o","n","s">>) >>] >>   \* r'terms\s+and\s+conditions'

\* The keyword lists of the if/elif chain of _fallback_section_extraction.
fallback_keywords ==
    << [name |-> "project_overview", keywords |-> <<
         <<"p","r","o","j","e","c","t"," ","o","v","e","r","v","i","e","w">>,   \* 'project overview'
         <<"i","n","t","r","o","d","u","c","t","i","o","n">>,   \* 'introduction'
         <<"b","a","c","k","g","r","o","u","n","d">> >>],   \* 'background'
       [name |-> "scope", keywords |-> <<
         <<"s","c","o","p","e"," ","o","f"," ","w","o","r","k">>,   \* 'scope of work'
         <<"s","c","o","p","e">>,   \* 'scope'
         <<"w","o","r","k"," ","s","c","o","p","e">> >>],   \* 'work scope'
       [name |-> "timeline", keywords |-> <<
         <<"t","i","m","e","l","i","n","e">>,   \* 'timeline'
         <<"s","c","h","e","d","u","l","e">>,   \* 'schedule'
         <<"d","u","r","a","t","i","o","n">>,   \* 'duration'
         <<"d","e","a","d","l","i","n","e">> >>],   \* 'deadline'
       [name |-> "materials", keywords |-> <<
         <<"m","a","t","e","r","i","a","l","s">>,   \* 'materials'
         <<"e","q","u","i","p","m","e","n","t">>,   \* 'equipment'
         <<"s","u","p","p","l","i","e","s">> >>],   \* 'supplies'
       [name |-> "costs", keywords |-> <<
         <<"c","o","s","t">>,   \* 'cost'
         <<"b","u","d","g","e","t">>,   \* 'budget'
         <<"p","r","i","c","i","n","g">>,   \* 'pricing'
         <<"e","s","t","i","m","a","t","e">> >>],   \* 'estimate'
       [name |-> "payment_terms", keywords |-> <<
         <<"p","a","y","m","e","n","t">>,   \* 'payment'
         <<"i","n","v","o","i","c","e">>,   \* 'invoice'
         <<"b","i","l","l","i","n","g">> >>],   \* 'billing'
       [name |-> "deliverables", keywords |-> <<
         <<"d","e","l","i","v","e","r","a","b","l","e">>,   \* 'deliverable'
         <<"o","u","t","p","u","t">>,   \* 'output'
         <<"r","e","s","u","l","t">> >>],   \* 'result'
       [name |-> "quality_standards", keywords |-> <<
         <<"q","u","a","l","i","t","y">>,   \* 'quality'
         <<"s","t","a","n","d","a","r","d">>,   \* 'standard'
         <<"s","p","e","c","i","f","i","c","a","t","i","o","n">> >>],   \* 'specification'
       [name |-> "legal_clauses", keywords |-> <<
         <<"l","e","g","a","l">>,   \* 'legal'
         <<"c","l","a","u","s","e">>,   \* 'clause'
         <<"l","i","a","b","i","l","i","t","y">>,   \* 'liability'
         <<"w","a","r","r","a","n","t","y">> >>] >>   \* 'warranty'

\* The index in section_headers of the first section one of whose patterns
\* matches at the start of the line (re.match, IGNORECASE), 0 when none does.
found_section(line) ==
    LET hits == {s \in 1..Len(section_headers) :
                    \E p \in 1..Len(section_headers[s].patterns) :
                        re_match(section_headers[s].patterns[p], line, TRUE) # <<>>}
    IN  IF hits = {} THEN 0 ELSE CHOOSE s \in hits : \A o \in hits : s <= o

\* header_match: the match of the first pattern of section s that matches.
header_match(s, line) ==
    LET pats == section_headers[s].patterns
        p == CHOOSE q \in 1..Len(pats) :
                 /\ re_match(pats[q], line, TRUE) # <<>>
                 /\ \A o \in 1..(q - 1) : re_match(pats[o], line, TRUE) = <<>>
    IN  re_match(pats[p], line, TRUE)

\* "Save previous section content": only a non-empty content list is stored.
save_section(st) ==
    IF st.current_section # NoSection /\ st.current_content # <<>>
    THEN [st.sections EXCEPT ![st.current_section] = strip(join(<<"\n">>, st.current_content))]
    ELSE st.sections

\* The loop body without the "header and content on the same line" step.
scan_line_drop_inline(st, raw_line) ==
    LET line == strip(raw_line)
        s == found_section(line)
    IN  IF line = <<>> THEN st
        ELSE IF s # 0
        THEN [sections |-> save_section(st),
              current_section |-> section_headers[s].name,
              current_content |-> <<>>]
        ELSE IF st.current_section # NoSection
        THEN [st EXCEPT !.current_content = Append(@, line)]
        ELSE st

\* One iteration of the loop over the lines.
scan_line(st, raw_line) ==
    LET line == strip(raw_line)
        s == found_section(line)
    IN  IF line = <<>> THEN st
        ELSE IF s # 0
        THEN LET after_header == strip(SubSeq(line, MatchEnd(header_match(s, line)), Len(line)))
             IN  [sections |-> save_section(st),
                  current_section |-> section_headers[s].name,
                  current_content |-> IF after_header # <<>> THEN <<after_header>> ELSE <<>>]
        ELSE IF st.current_section # NoSection
        THEN [st EXCEPT !.current_content = Append(@, line)]
        ELSE st

RECURSIVE scan_lines(_, _, _)
scan_lines(st, lines, i) ==
    IF i > Len(lines) THEN st ELSE scan_lines(scan_line(st, lines[i]), lines, i + 1)

\* The sections after the loop and the final save, before the fallback test.
primary_sections(t) ==
    save_section(scan_lines([sections |-> EmptySections, current_section |-> NoSection,
                             current_content |-> <<>>],
                            split(t, <<"\n">>), 1))

\* any(sections.values()): some section body is a non-empty string.
any_section(secs) == \E name \in DOMAIN secs : secs[name] # <<>>

\* keyword in paragraph_lower.
contains(s, sub) == FindSep(s, sub, 1) # 0

\* The branch of the if/elif chain a paragraph takes, 0 when it takes none.
\* A chain that files the paragraph under the last section with a keyword in it.
paragraph_section_last(paragraph) ==
    LET paragraph_lower == lower(paragraph)
        hits == {s \in 1..Len(fallback_keywords) :
                    \E k \in 1..Len(fallback_keywords[s].keywords) :
                        contains(paragraph_lower, fallback_keywords[s].keywords[k])}
    IN  IF hits = {} THEN 0 ELSE CHOOSE s \in hits : \A o \in hits : o <= s

paragraph_section(paragraph) ==
    LET paragraph_lower == lower(paragraph)
        hits == {s \in 1..Len(fallback_keywords) :
                    \E k \in 1..Len(fallback_keywords[s].keywords) :
                        contains(paragraph_lower, fallback_keywords[s].keywords[k])}
    IN  IF hits = {} THEN 0 ELSE CHOOSE s \in hits : \A o \in hits : s <= o

RECURSIVE fallback_paragraphs(_, _, _)
fallback_paragraphs(secs, paragraphs, i) ==
    IF i > Len(paragraphs) THEN secs
    ELSE LET s == paragraph_section(paragraphs[i])
             name == fallback_keywords[s].name
         IN  IF s = 0 THEN fallback_paragraphs(secs, paragraphs, i + 1)
             ELSE fallback_paragraphs(
                      [secs EXCEPT ![name] = IF @ # <<>> THEN @ \o <<"\n", "\n">> \o paragraphs[i]
                                             ELSE paragraphs[i]],
                      paragraphs, i + 1)

\* A fallback that creates a key only when a paragraph is filed under it.
fallback_section_extraction_sparse(t) ==
    LET secs == fallback_paragraphs(EmptySections, split(t, <<"\n", "\n">>), 1)
    IN  [name \in {n \in DOMAIN secs : secs[n] # <<>>} |-> secs[name]]

fallback_section_extraction(t) ==
    fallback_paragraphs(EmptySections, split(t, <<"\n", "\n">>), 1)

extract_sections(t) ==
    LET secs == primary_sections(t)
    IN  IF ~any_section(secs) THEN fallback_section_extraction(t) ELSE secs

(***************************************************************************)
(* nlp_rules.py: the rule engine.                                          *)
(***************************************************************************)
\* CRITICAL_SECTIONS, each with the characters of its name.
CRITICAL_SECTIONS ==
    << [name |-> "project_overview", chars |-> <<"p","r","o","j","e","c","t","_","o","v","e","r","v","i","e","w">>],
       [name |-> "scope", chars |-> <<"s","c","o","p","e">>],
       [name |-> "timeline", chars |-> <<"t","i","m","e","l","i","n","e">>],
       [name |-> "materials", chars |-> <<"m","a","t","e","r","i","a","l","s">>],
       [name |-> "costs", chars |-> <<"c","o","s","t","s">>],
       [name |-> "payment_terms", chars |-> <<"p","a","y","m","e","n","t","_","t","e","r","m","s">>],
       [name |-> "deliverables", chars |-> <<"d","e","l","i","v","e","r","a","b","l","e","s">>],
       [name |-> "quality_standards", chars |-> <<"q","u","a","l","i","t","y","_","s","t","a","n","d","a","r","d","s">>],
       [name |-> "legal_clauses", chars |-> <<"l","e","g","a","l","_","c","l","a","u","s","e","s">>] >>

\* AMBIGUOUS_TERMS: the pattern text, its characters and the compiled pattern.
AMBIGUOUS_TERMS ==
    << [term |-> "as per standard", chars |-> <<"a","s"," ","p","e","r"," ","s","t","a","n","d","a","r","d">>,
        pattern |-> Lit(<<"a","s"," ","p","e","r"," ","s","t","a","n","d","a","r","d">>)],
       [term |-> "TBD", chars |-> <<"T","B","D">>,
        pattern |-> Lit(<<"T","B","D">>)],
       [term |-> "to be determined", chars |-> <<"t","o"," ","b","e"," ","d","e","t","e","r","m","i","n","e","d">>,
        pattern |-> Lit(<<"t","o"," ","b","e"," ","d","e","t","e","r","m","i","n","e","d">>)],
       [term |-> "as required", chars |-> <<"a","s"," ","r","e","q","u","i","r","e","d">>,
        pattern |-> Lit(<<"a","s"," ","r","e","q","u","i","r","e","d">>)],
       [term |-> "if necessary", chars |-> <<"i","f"," ","n","e","c","e","s","s","a","r","y">>,
        pattern |-> Lit(<<"i","f"," ","n","e","c","e","s","s","a","r","y">>)],
       [term |-> "subject to change", chars |-> <<"s","u","b","j","e","c","t"," ","t","o"," ","c","h","a","n","g","e">>,
        pattern |-> Lit(<<"s","u","b","j","e","c","t"," ","t","o"," ","c","h","a","n","g","e">>)],
       [term |-> "etc\\.", chars |-> <<"e","t","c","\\",".">>,
        pattern |-> Lit(<<"e","t","c",".">>)],
       [term |-> "or equivalent", chars |-> <<"o","r"," ","e","q","u","i","v","a","l","e","n","t">>,
        pattern |-> Lit(<<"o","r"," ","e","q","u","i","v","a","l","e","n","t">>)],
       [term |-> "as needed", chars |-> <<"a","s"," ","n","e","e","d","e","d">>,
        pattern |-> Lit(<<"a","s"," ","n","e","e","d","e","d">>)],
       [term |-> "unless otherwise specified", chars |-> <<"u","n","l","e","s","s"," ","o","t","h","e","r","w","i","s","e"," ","s","p","e","c","i","f","i","e","d">>,
        pattern |-> Lit(<<"u","n","l","e","s","s"," ","o","t","h","e","r","w","i","s","e"," ","s","p","e","c","i","f","i","e","d">>)] >>

\* CONTRADICTION_PATTERNS: pairs of patterns; group gives the items of the
\* pattern that capture group 1 spans.
CONTRADICTION_PATTERNS ==
    << <<[text |-> "completion in (\\d+) months", group |-> <<2, 2>>,
          pattern |-> Lit(<<"c","o","m","p","l","e","t","i","o","n"," ","i","n"," ">>) \o Plus("Digit", <<>>) \o Lit(<<" ","m","o","n","t","h","s">>)],
         [text |-> "phases? spanning (\\d+) months", group |-> <<4, 4>>,
          pattern |-> Lit(<<"p","h","a","s","e">>) \o Opt("lit", <<"s">>) \o Lit(<<" ","s","p","a","n","n","i","n","g"," ">>) \o Plus("Digit", <<>>) \o Lit(<<" ","m","o","n","t","h","s">>)]>>,
       <<[text |-> "start date:? (\\w+ \\d{4})", group |-> <<4, 6>>,
          pattern |-> Lit(<<"s","t","a","r","t"," ","d","a","t","e">>) \o Opt("lit", <<":">>) \o Lit(<<" ">>) \o Plus("Word", <<>>) \o Lit(<<" ">>) \o Rep("Digit", <<>>, 4)],
         [text |-> "completion date:? (\\w+ \\d{4})", group |-> <<4, 6>>,
          pattern |-> Lit(<<"c","o","m","p","l","e","t","i","o","n"," ","d","a","t","e">>) \o Opt("lit", <<":">>) \o Lit(<<" ">>) \o Plus("Word", <<>>) \o Lit(<<" ">>) \o Rep("Digit", <<>>, 4)]>> >>

\* str.replace(old, new) for one-character old and new.
replace(s, old, new) == [i \in 1..Len(s) |-> IF s[i] = old THEN new ELSE s[i]]

UpperChar(c) == IF c \in DOMAIN ToUpper THEN ToUpper[c] ELSE c

IsLetter(c) == c \in DOMAIN ToUpper \/ c \in DOMAIN ToLower

\* str.title(): a letter is upper-cased after a non-letter, lower-cased after a letter.
title(s) ==
    [i \in 1..Len(s) |-> IF i = 1 \/ ~IsLetter(s[i - 1]) THEN UpperChar(s[i]) ELSE LowerChar(s[i])]

\* if not sections.get(section): the key is absent or its body is ''.
section_missing(secs, name) == name \notin DOMAIN secs \/ secs[name] = <<>>

missing_issue(sec) ==
    [type |-> "missing_section", section |-> sec.name, severity |-> "Critical",
     message |-> <<"M","i","s","s","i","n","g"," ","c","r","i","t","i","c","a","l"," ","s","e","c","t","i","o","n",":"," ">> \o title(replace(sec.chars, "_", " ")),
     suggestion |-> <<"A","d","d"," ","a"," ","s","e","c","t","i","o","n"," ","f","o","r"," ">> \o title(replace(sec.chars, "_", " ")) \o <<".">>]

RECURSIVE missing_from(_, _)
missing_from(secs, i) ==
    IF i > Len(CRITICAL_SECTIONS) THEN <<>>
    ELSE (IF section_missing(secs, CRITICAL_SECTIONS[i].name)
          THEN <<missing_issue(CRITICAL_SECTIONS[i])>> ELSE <<>>)
         \o missing_from(secs, i + 1)

check_missing_sections(secs) == missing_from(secs, 1)

ambiguous_issue(t) ==
    [type |-> "ambiguous_term", term |-> t.term, severity |-> "Warning",
     message |-> <<"A","m","b","i","g","u","o","u","s"," ","t","e","r","m"," ","f","o","u","n","d",":"," ","\"">> \o t.chars \o <<"\"">>,
     suggestion |-> <<"R","e","p","l","a","c","e"," ","w","i","t","h"," ","s","p","e","c","i","f","i","c"," ","d","e","t","a","i","l","s",".">>]

RECURSIVE ambiguous_from(_, _)
ambiguous_from(t, i) ==
    IF i > Len(AMBIGUOUS_TERMS) THEN <<>>
    ELSE (IF re_search(AMBIGUOUS_TERMS[i].pattern, t, TRUE) # <<>>
          THEN <<ambiguous_issue(AMBIGUOUS_TERMS[i])>> ELSE <<>>)
         \o ambiguous_from(t, i + 1)

\* A checker that reports every occurrence of a term (a loop over re.finditer).
RECURSIVE ambiguous_each_from(_, _)
ambiguous_each_from(t, i) ==
    IF i > Len(AMBIGUOUS_TERMS) THEN <<>>
    ELSE LET n == Cardinality({j \in 1..(Len(t) + 1) :
                                 MatchItems(AMBIGUOUS_TERMS[i].pattern, 1, t, j, TRUE) # <<>>})
         IN  [j \in 1..n |-> ambiguous_issue(AMBIGUOUS_TERMS[i])] \o ambiguous_each_from(t, i + 1)

check_ambiguous_terms_each(t) == ambiguous_each_from(t, 1)

check_ambiguous_terms(t) == ambiguous_from(t, 1)

contradiction_issue(pair, t, match1, match2) ==
    [type |-> "contradiction", patterns |-> <<pair[1].text, pair[2].text>>,
     severity |-> "Critical",
     message |-> <<"P","o","t","e","n","t","i","a","l"," ","c","o","n","t","r","a","d","i","c","t","i","o","n",":"," ","\"">> \o Group0(t, match1)
                 \o <<"\""," ","v","s","."," ","\"">> \o Group0(t, match2) \o <<"\"">>,
     suggestion |-> <<"C","l","a","r","i","f","y"," ","t","h","e"," ","t","i","m","e","l","i","n","e"," ","a","n","d"," ","e","n","s","u","r","e"," ","c","o","n","s","i","s","t","e","n","c","y",".">>]

\* A checker that compares the whole matches, group(0), not the captured groups.
RECURSIVE contradictions_by_span_from(_, _)
contradictions_by_span_from(t, i) ==
    IF i > Len(CONTRADICTION_PATTERNS) THEN <<>>
    ELSE LET pair == CONTRADICTION_PATTERNS[i]
             match1 == re_search(pair[1].pattern, t, TRUE)
             match2 == re_search(pair[2].pattern, t, TRUE)
         IN  (IF /\ match1 # <<>> /\ match2 # <<>>
                 /\ Group0(t, match1) # Group0(t, match2)
              THEN <<contradiction_issue(pair, t, match1, match2)>> ELSE <<>>)
             \o contradictions_by_span_from(t, i + 1)

check_contradictions_by_span(t) == contradictions_by_span_from(t, 1)

\* A checker that decides each pair from the last occurrence of each pattern.
RECURSIVE contradictions_by_last_from(_, _)
contradictions_by_last_from(t, i) ==
    IF i > Len(CONTRADICTION_PATTERNS) THEN <<>>
    ELSE LET pair == CONTRADICTION_PATTERNS[i]
             starts1 == {j \in 1..(Len(t) + 1) : MatchItems(pair[1].pattern, 1, t, j, TRUE) # <<>>}
             starts2 == {j \in 1..(Len(t) + 1) : MatchItems(pair[2].pattern, 1, t, j, TRUE) # <<>>}
             match1 == MatchItems(pair[1].pattern, 1, t, CHOOSE j \in starts1 : \A o \in starts1 : o <= j, TRUE)
             match2 == MatchItems(pair[2].pattern, 1, t, CHOOSE j \in starts2 : \A o \in starts2 : o <= j, TRUE)
         IN  (IF /\ starts1 # {} /\ starts2 # {}
                 /\ Group1(t, match1, pair[1].group) # Group1(t, match2, pair[2].group)
              THEN <<contradiction_issue(pair, t, match1, match2)>> ELSE <<>>)
             \o contradictions_by_last_from(t, i + 1)

check_contradictions_by_last(t) == contradictions_by_last_from(t, 1)

RECURSIVE contradictions_from(_, _)
contradictions_from(t, i) ==
    IF i > Len(CONTRADICTION_PATTERNS) THEN <<>>
    ELSE LET pair == CONTRADICTION_PATTERNS[i]
             match1 == re_search(pair[1].pattern, t, TRUE)
             match2 == re_search(pair[2].pattern, t, TRUE)
         IN  (IF /\ match1 # <<>> /\ match2 # <<>>
                 /\ Group1(t, match1, pair[1].group) # Group1(t, match2, pair[2].group)
              THEN <<contradiction_issue(pair, t, match1, match2)>> ELSE <<>>)
             \o contradictions_from(t, i + 1)

check_contradictions(t) == contradictions_from(t, 1)

\* An analysis that stops at the first checker that finds something.
analyze_sow_nlp_first_finding(t, secs) ==
    IF check_missing_sections(secs) # <<>> THEN check_missing_sections(secs)
    ELSE IF check_ambiguous_terms(t) # <<>> THEN check_ambiguous_terms(t)
    ELSE check_contradictions(t)

analyze_sow_nlp(t, secs) ==
    check_missing_sections(secs) \o check_ambiguous_terms(t) \o check_contradictions(t)

(***************************************************************************)
(* reporter.py: summary and risk score.                                    *)
(***************************************************************************)
\* issue.get('severity', 'Info')
severity_of(issue) == IF "severity" \in DOMAIN issue THEN issue.severity ELSE "Info"

RECURSIVE summarize_from(_, _, _)
summarize_from(summ, iss, i) ==
    IF i > Len(iss) THEN summ
    ELSE LET sev == severity_of(iss[i])
         IN  summarize_from(IF sev \in DOMAIN summ THEN [summ EXCEPT ![sev] = @ + 1]
                            ELSE [summ EXCEPT !["Info"] = @ + 1],
                            iss, i + 1)

\* A summary without the else branch: an unrecognized severity is not counted.
summarize_issues_known_only(iss) ==
    [sev \in {"Critical", "Warning", "Info"} |->
        Cardinality({i \in 1..Len(iss) : severity_of(iss[i]) = sev})]

summarize_issues(iss) ==
    summarize_from([sev \in {"Critical", "Warning", "Info"} |-> 0], iss, 1)

\* weights = {"Critical": 10, "Warning": 5, "Info": 1} when none is passed.
default_weights == [sev \in {"Critical", "Warning", "Info"} |->
                       CASE sev = "Critical" -> 10 [] sev = "Warning" -> 5 [] sev = "Info" -> 1]

RECURSIVE score_from(_, _, _)
score_from(w, iss, i) ==
    IF i > Len(iss) THEN 0
    ELSE LET sev == severity_of(iss[i])
         IN  (IF sev \in DOMAIN w THEN w[sev] ELSE 1) + score_from(w, iss, i + 1)

\* A score with weights[sev] in place of weights.get(sev, 1): a severity that
\* is not in the table adds nothing.
RECURSIVE score_known_from(_, _, _)
score_known_from(w, iss, i) ==
    IF i > Len(iss) THEN 0
    ELSE LET sev == severity_of(iss[i])
         IN  (IF sev \in DOMAIN w THEN w[sev] ELSE 0) + score_known_from(w, iss, i + 1)

assign_risk_score_known_only(iss, w) ==
    score_known_from(IF w = NoWeights THEN default_weights ELSE w, iss, 1)

assign_risk_score(iss, w) ==
    score_from(IF w = NoWeights THEN default_weights ELSE w, iss, 1)

(***************************************************************************)
(* The run of the tool: extract_sow_content, analyze_sow_nlp, then the     *)
(* summary and the risk score of the issue list (main.py, test_run.py).    *)
(***************************************************************************)
\* extract_sow_content(file_path, text).  file is what open(file_path).read()
\* returns; a file path is a text file's (PDF page extraction is external).
ExtractSowContent ==
    /\ pc = "start"
    /\ IF file_path # None /\ file_path # <<>>
       THEN /\ full_text' = clean_text(file)
            /\ sections' = extract_sections(clean_text(file))
            /\ pc' = "extracted"
            /\ UNCHANGED raised
       ELSE IF text # None /\ text # <<>>
       THEN /\ full_text' = clean_text(text)
            /\ sections' = extract_sections(clean_text(text))
            /\ pc' = "extracted"
            /\ UNCHANGED raised
       ELSE /\ raised' = "ValueError"
            /\ pc' = "raised"
            /\ UNCHANGED <<full_text, sections>>
    /\ UNCHANGED <<file_path, file, text, issues, weights, summary, risk_score>>

\* nlp_issues = analyze_sow_nlp(full_text, sections)
AnalyzeSowNlp ==
    /\ pc = "extracted"
    /\ issues' = analyze_sow_nlp(full_text, sections)
    /\ pc' = "analyzed"
    /\ UNCHANGED <<file_path, file, text, full_text, sections, weights, summary, risk_score, raised>>

\* summary = summarize_issues(all_issues)
SummarizeIssues ==
    /\ pc = "analyzed"
    /\ summary' = summarize_issues(issues)
    /\ pc' = "summarized"
    /\ UNCHANGED <<file_path, file, text, full_text, sections, issues, weights, risk_score, raised>>

\* risk_score = assign_risk_score(all_issues)
AssignRiskScore ==
    /\ pc = "summarized"
    /\ risk_score' = assign_risk_score(issues, weights)
    /\ pc' = "scored"
    /\ UNCHANGED <<file_path, file, text, full_text, sections, issues, weights, summary, raised>>

Next == ExtractSowContent \/ AnalyzeSowNlp \/ SummarizeIssues \/ AssignRiskScore

\* The state before the run, the document being one of the texts of T, given
\* as the text argument or as the content of a text file, or not given at all.
InitRun(T) ==
    /\ \/ file_path = None /\ file = None /\ text \in T \cup {None}
       \/ file_path = <<"s","o","w",".","t","x","t">> /\ file \in T /\ text = None
    /\ pc = "start" /\ full_text = None /\ sections = None /\ issues = None
    /\ weights = NoWeights /\ summary = None /\ risk_score = None /\ raised = NoException

\* The state before a run that passes the document as the text argument, as
\* the tests do (text=None: no argument at all).
InitText(T) ==
    /\ file_path = None /\ file = None /\ text \in T \cup {None}
    /\ pc = "start" /\ full_text = None /\ sections = None /\ issues = None
    /\ weights = NoWeights /\ summary = None /\ risk_score = None /\ raised = NoException

\* Texts of at most n lines, each line one of the set lines.
TextsOf(lines, n) ==
    {join(<<"\n">>, ls) : ls \in UNION {[1..k -> lines] : k \in 0..n}}

(***************************************************************************)
(* Specification Spec: documents made of header lines and body lines.      *)
(***************************************************************************)
\* The most lines a document of Spec has.
MaxLines == 3

\* A bare scope header, headers of three sections carrying text on the header
\* line, and a line that is no header.
SectionLines ==
    { <<"S","C","O","P","E">>,
      <<"S","c","o","p","e",":"," ","a">>,
      <<"T","I","M","E","L","I","N","E"," ","b">>,
      <<"C","o","s","t","s",":"," ","c">>,
      <<"f","o","o">> }

Init == InitRun(TextsOf(SectionLines, MaxLines))

Spec == Init /\ [][Next]_vars

(***************************************************************************)
(* Vocabulary of the properties.                                           *)
(***************************************************************************)
SectionSet == {SectionNames[i] : i \in 1..Len(SectionNames)}

\* extract_sow_content has returned.
Extracted == pc \in {"extracted", "analyzed", "summarized", "scored"}

\* analyze_sow_nlp has returned.
Analyzed == pc \in {"analyzed", "summarized", "scored"}

\* The lines of a text the segmenter looks at: stripped, the empty ones left out.
SegmenterLines(t) ==
    LET lines == split(t, <<"\n">>)
    IN  SelectSeq([i \in 1..Len(lines) |-> strip(lines[i])], LAMBDA line : line # <<>>)

\* The text that follows the header on a header line.
AfterHeader(line) ==
    strip(SubSeq(line, MatchEnd(header_match(found_section(line), line)), Len(line)))

\* The sections (indices of section_headers) that have a header line in t.
HeaderSections(t) ==
    LET lines == SegmenterLines(t)
    IN  {found_section(lines[i]) : i \in 1..Len(lines)} \ {0}

\* The issues of one type, and the sections the missing_section issues name.
IssuesOfType(iss, type) == SelectSeq(iss, LAMBDA issue : issue.type = type)

MissingNames(iss) ==
    LET missing == IssuesOfType(iss, "missing_section")
    IN  [i \in 1..Len(missing) |-> missing[i].section]

\* The primary pass left every section empty, so the fallback produced the result.
FallbackUsed(t) == ~any_section(primary_sections(t))

\* C1: the section map returned by extract_sections has exactly the 9 section
\* keys, from the primary pass as from the fallback, and a section for which
\* the pass that produced the result found nothing (no header line in the
\* primary pass, no keyword paragraph in the fallback) holds the empty string.
C1_NineKeys ==
    Extracted =>
        LET paragraphs == split(full_text, <<"\n", "\n">>)
            found == IF FallbackUsed(full_text)
                     THEN {paragraph_section(paragraphs[q]) : q \in 1..Len(paragraphs)}
                     ELSE HeaderSections(full_text)
        IN  /\ DOMAIN sections = SectionSet
            /\ Cardinality(DOMAIN sections) = 9
            /\ \A s \in 1..Len(SectionNames) :
                  s \notin found => sections[SectionNames[s]] = <<>>

\* A result that the fallback classifier produced and in which it filled a section.
C1_Witness ==
    /\ pc = "extracted"
    /\ FallbackUsed(full_text)
    /\ any_section(sections)
    /\ \E name \in SectionSet : sections[name] = <<>>

\* The section of a header line that carries no text after the header, 0 for
\* any other line.
BareHeader(line) ==
    IF found_section(line) # 0 /\ AfterHeader(line) = <<>> THEN found_section(line) ELSE 0

\* Whether some missing_section issue names the section.
MissingReported(iss, name) ==
    \E i \in 1..Len(iss) : iss[i].type = "missing_section" /\ iss[i].section = name

\* C3: when a header line without text of its own is followed directly by
\* another header line, the section map holds the empty string for that
\* section and check_missing_sections reports it as missing.
C3_BodylessHeaderIsMissing ==
    pc = "analyzed" =>
        LET lines == SegmenterLines(full_text)
        IN  \A i \in 1..(Len(lines) - 1) :
                (BareHeader(lines[i]) # 0 /\ found_section(lines[i + 1]) # 0)
                => /\ sections[SectionNames[BareHeader(lines[i])]] = <<>>
                   /\ MissingReported(issues, SectionNames[BareHeader(lines[i])])

\* Whether section s has, in t, a header line followed by text of its own:
\* on the header line, or on a following line that is no header.
HasBody(t, s) ==
    LET lines == SegmenterLines(t)
    IN  \E i \in 1..Len(lines) :
            /\ found_section(lines[i]) = s
            /\ \/ AfterHeader(lines[i]) # <<>>
               \/ i < Len(lines) /\ found_section(lines[i + 1]) = 0

\* The names of the critical sections without a header line in t, in
\* declaration order.
AbsentNames(t) ==
    LET present == {SectionNames[s] : s \in HeaderSections(t)}
    IN  [i \in 1..Len(SelectSeq(CRITICAL_SECTIONS, LAMBDA sec : sec.name \notin present)) |->
            SelectSeq(CRITICAL_SECTIONS, LAMBDA sec : sec.name \notin present)[i].name]

\* The missing_section issues are exactly one Critical issue for each of the
\* sections that have no header line in the normalized text.
SixMissing ==
    /\ Len(MissingNames(issues)) = 6
    /\ MissingNames(issues) = AbsentNames(full_text)
    /\ \A i \in 1..Len(issues) :
          issues[i].type = "missing_section" => issues[i].severity = "Critical"

\* C4 as stated: header lines for exactly 3 of the 9 sections give exactly 6
\* missing_section issues, one for each section without a header line.
C4_Original ==
    (pc = "analyzed" /\ Cardinality(HeaderSections(full_text)) = 3) => SixMissing

\* C4 amended: header lines for exactly 3 of the 9 sections, each of the 3
\* having a header line followed by text of its own, give exactly 6
\* missing_section issues, all Critical, one for each section without a header.
C4_ThreeSectionsWithBody ==
    (/\ pc = "analyzed"
     /\ Cardinality(HeaderSections(full_text)) = 3
     /\ \A s \in HeaderSections(full_text) : HasBody(full_text, s))
    => SixMissing

C4_Witness ==
    /\ pc = "analyzed"
    /\ Cardinality(HeaderSections(full_text)) = 3
    /\ \A s \in HeaderSections(full_text) : HasBody(full_text, s)
    /\ Len(MissingNames(issues)) = 6

\* C10: extract_sow_content with text='' and no file path returns an empty
\* full_text and 9 blank sections instead of raising.
C10_EmptyTextHandled ==
    (file_path = None /\ text = <<>> /\ pc # "start")
    => /\ pc # "raised"
       /\ raised = NoException
       /\ full_text = <<>>
       /\ sections = EmptySections

(***************************************************************************)
(* Specification SpecClean: raw documents, character by character.         *)
(***************************************************************************)
\* The most fragments a raw document of SpecClean is made of.
MaxFrags == 5

\* A letter, a space, a character outside the allow-list, a line break, and
\* the rest of the footer pattern 'date:' after its first letter.
CleanFrags ==
    { <<"d">>, <<" ">>, <<"$">>, <<"\n">>, <<"a","t","e",":">> }

\* The concatenations of at most n of the fragments.
ConcatsOf(frags, n) ==
    {join(<<>>, fs) : fs \in UNION {[1..k -> frags] : k \in 0..n}}

InitClean == InitText(ConcatsOf(CleanFrags, MaxFrags))

SpecClean == InitClean /\ [][Next]_vars

\* C2: clean_text is idempotent: cleaning the cleaned text changes nothing.
C2_CleanTextIdempotent ==
    pc = "extracted" => clean_text(full_text) = full_text

(***************************************************************************)
(* Specification SpecRules: documents of durations, dates and vague terms. *)
(***************************************************************************)
\* The most lines a document of SpecRules has.
MaxRuleLines == 3

\* Lines with the spans of both contradiction pattern pairs, with equal and
\* with different captured values, and with ambiguous terms (one of them
\* twice on a line, in two spellings).
RuleLines ==
    { <<"c","o","m","p","l","e","t","i","o","n"," ","i","n"," ","6"," ","m","o","n","t","h","s">>,
      <<"p","h","a","s","e","s"," ","s","p","a","n","n","i","n","g"," ","1","2"," ","m","o","n","t","h","s"," ","e","t","c",".">>,
      <<"P","h","a","s","e"," ","s","p","a","n","n","i","n","g"," ","6"," ","m","o","n","t","h","s"," ","T","B","D"," ","t","b","d">>,
      <<"s","t","a","r","t"," ","d","a","t","e"," ","M","a","y"," ","2","0","2","4">>,
      <<"C","o","m","p","l","e","t","i","o","n"," ","d","a","t","e"," ","J","u","n","e"," ","2","0","2","4"," ","a","s"," ","n","e","e","d","e","d">>,
      <<"c","o","m","p","l","e","t","i","o","n"," ","d","a","t","e"," ","M","a","y"," ","2","0","2","4">> }

InitRules == InitText(TextsOf(RuleLines, MaxRuleLines))

SpecRules == InitRules /\ [][Next]_vars

\* The positions of t at which the pattern matches (IGNORECASE).
Starts(pat, t) == {i \in 1..(Len(t) + 1) : MatchItems(pat, 1, t, i, TRUE) # <<>>}

\* The first occurrence of a contradiction pattern in t: its span and the
\* text its group captures.
FirstSpan(cp, t) == Group0(t, MatchItems(cp.pattern, 1, t, Least(Starts(cp.pattern, t)), TRUE))

FirstCapture(cp, t) ==
    Group1(t, MatchItems(cp.pattern, 1, t, Least(Starts(cp.pattern, t)), TRUE), cp.group)

\* Both patterns of the pair occur in t and capture different texts.
Contradicts(pair, t) ==
    /\ Starts(pair[1].pattern, t) # {}
    /\ Starts(pair[2].pattern, t) # {}
    /\ FirstCapture(pair[1], t) # FirstCapture(pair[2], t)

\* The contradiction issues that name the pair.
ContradictionsOf(iss, pair) ==
    SelectSeq(iss, LAMBDA issue : /\ issue.type = "contradiction"
                                  /\ issue.patterns = <<pair[1].text, pair[2].text>>)

\* The message quotes the first span and, after it, the second.
QuotesBoth(message, span1, span2) ==
    LET q1 == FindSep(message, <<"\"">> \o span1 \o <<"\"">>, 1)
    IN  /\ q1 # 0
        /\ FindSep(message, <<"\"">> \o span2 \o <<"\"">>, q1 + Len(span1) + 2) # 0

\* C5: for each contradiction pattern pair, check_contradictions emits exactly
\* one Critical contradiction issue, whose message quotes both matched spans,
\* when both patterns occur and their captured groups differ, and no issue
\* for the pair when the groups are equal or a pattern does not occur.
C5_ContradictionPerPair ==
    pc = "analyzed" =>
        \A p \in 1..Len(CONTRADICTION_PATTERNS) :
            LET pair == CONTRADICTION_PATTERNS[p]
                reported == ContradictionsOf(issues, pair)
            IN  IF Contradicts(pair, full_text)
                THEN /\ Len(reported) = 1
                     /\ reported[1].severity = "Critical"
                     /\ QuotesBoth(reported[1].message,
                                   FirstSpan(pair[1], full_text), FirstSpan(pair[2], full_text))
                ELSE reported = <<>>

\* Both patterns of a pair occur with different captured values, and the pair
\* is reported once.
C5_Witness ==
    /\ pc = "analyzed"
    /\ \E p \in 1..Len(CONTRADICTION_PATTERNS) :
          /\ Contradicts(CONTRADICTION_PATTERNS[p], full_text)
          /\ Len(ContradictionsOf(issues, CONTRADICTION_PATTERNS[p])) = 1

\* The text an ambiguous-term pattern stands for: the pattern without its escapes.
TermLiteral(term) == SelectSeq(term.chars, LAMBDA c : c # "\\")

\* The positions of t at which the literal occurs, letter case ignored.
OccurrencesOf(literal, t) ==
    {i \in 1..(Len(t) - Len(literal) + 1) :
        \A k \in 1..Len(literal) : LowerChar(t[i + k - 1]) = LowerChar(literal[k])}

\* The ambiguous_term issues that name the term.
AmbiguousOf(iss, term) ==
    SelectSeq(iss, LAMBDA issue : issue.type = "ambiguous_term" /\ issue.term = term.term)

\* C6: check_ambiguous_terms emits exactly one Warning issue for each
\* ambiguous pattern that occurs in the text, in any letter case and however
\* often, and none for a pattern that does not occur; so there are at most 10
\* ambiguous_term issues and no two for one term.
C6_OneIssuePerTerm ==
    pc = "analyzed" =>
        /\ \A k \in 1..Len(AMBIGUOUS_TERMS) :
              LET reported == AmbiguousOf(issues, AMBIGUOUS_TERMS[k])
              IN  /\ Len(reported) =
                        (IF OccurrencesOf(TermLiteral(AMBIGUOUS_TERMS[k]), full_text) # {}
                         THEN 1 ELSE 0)
                  /\ \A i \in 1..Len(reported) : reported[i].severity = "Warning"
        /\ Len(IssuesOfType(issues, "ambiguous_term")) <= 10

\* A term occurs more than once in the text and is reported once.
C6_Witness ==
    /\ pc = "analyzed"
    /\ \E k \in 1..Len(AMBIGUOUS_TERMS) :
          /\ Cardinality(OccurrencesOf(TermLiteral(AMBIGUOUS_TERMS[k]), full_text)) >= 2
          /\ Len(AmbiguousOf(issues, AMBIGUOUS_TERMS[k])) = 1

\* The place of an issue type in the result of analyze_sow_nlp.
TypeRank(type) ==
    CASE type = "missing_section" -> 1 [] type = "ambiguous_term" -> 2 [] type = "contradiction" -> 3

\* The place of a section in CRITICAL_SECTIONS.
SectionRank(name) == CHOOSE i \in 1..Len(CRITICAL_SECTIONS) : CRITICAL_SECTIONS[i].name = name

\* C9: in the result of analyze_sow_nlp the missing_section issues come first,
\* in section declaration order, then the ambiguous_term issues, then the
\* contradiction issues; and every checker's findings are there whatever the
\* other checkers found: each empty section, each occurring term and each
\* contradicting pair is reported.
C9_OrderAndIndependence ==
    pc = "analyzed" =>
        /\ \A i, j \in 1..Len(issues) :
              i < j => /\ TypeRank(issues[i].type) <= TypeRank(issues[j].type)
                       /\ (issues[j].type = "missing_section"
                           => SectionRank(issues[i].section) < SectionRank(issues[j].section))
        /\ \A name \in SectionSet : sections[name] = <<>> => MissingReported(issues, name)
        /\ \A k \in 1..Len(AMBIGUOUS_TERMS) :
              OccurrencesOf(TermLiteral(AMBIGUOUS_TERMS[k]), full_text) # {}
              => AmbiguousOf(issues, AMBIGUOUS_TERMS[k]) # <<>>
        /\ \A p \in 1..Len(CONTRADICTION_PATTERNS) :
              Contradicts(CONTRADICTION_PATTERNS[p], full_text)
              => ContradictionsOf(issues, CONTRADICTION_PATTERNS[p]) # <<>>

\* All three checkers found something.
C9_Witness ==
    /\ pc = "analyzed"
    /\ Len(IssuesOfType(issues, "missing_section")) >= 2
    /\ IssuesOfType(issues, "ambiguous_term") # <<>>
    /\ IssuesOfType(issues, "contradiction") # <<>>

(***************************************************************************)
(* Specification SpecReport: summarize_issues and assign_risk_score on     *)
(* issue lists as the rule engine and the LLM reviewer can return them.    *)
(***************************************************************************)
\* The most issues a list of SpecReport holds.
MaxIssues == 4

\* Issues shaped like those of llm_review.py: of each severity, of a severity
\* outside the three, and without a severity field.
ReportIssues ==
    { [issue |-> "Missing timeline section.", severity |-> "Critical", suggestion |-> "Add a timeline."],
      [issue |-> "Ambiguous term.", severity |-> "Warning", suggestion |-> "Specify the standard."],
      [issue |-> "LLM response could not be parsed as JSON.", severity |-> "Info", suggestion |-> ""],
      [issue |-> "Payment terms unclear.", severity |-> "High", suggestion |-> "Clarify."],
      [issue |-> "No severity given.", suggestion |-> "Review."] }

\* Weight tables passed to assign_risk_score, apart from none at all.
WeightTables ==
    { [Critical |-> 20, Warning |-> 2, Info |-> 3], [Critical |-> 7] }

InitReport ==
    /\ file_path = None /\ file = None /\ text = None
    /\ full_text = None /\ sections = None
    /\ pc = "analyzed"
    /\ issues \in UNION {[1..n -> ReportIssues] : n \in 0..MaxIssues}
    /\ weights \in WeightTables \cup {NoWeights}
    /\ summary = None /\ risk_score = None /\ raised = NoException

NextReport == SummarizeIssues \/ AssignRiskScore

SpecReport == InitReport /\ [][NextReport]_vars

\* The severity an issue counts under, and the number of issues that count
\* under a severity.
CountedAs(issue) == IF "severity" \in DOMAIN issue THEN issue.severity ELSE "Info"

CountOf(iss, sev) == Cardinality({i \in 1..Len(iss) : CountedAs(iss[i]) = sev})

\* What one issue of the severity adds to the score under the table in force.
WeightOf(sev) ==
    IF weights = NoWeights
    THEN CASE sev = "Critical" -> 10 [] sev = "Warning" -> 5 [] sev = "Info" -> 1 [] OTHER -> 1
    ELSE IF sev \in DOMAIN weights THEN weights[sev] ELSE 1

\* C7: assign_risk_score is the sum over the issues of weights[severity], with
\* Critical=10, Warning=5, Info=1 when no table is passed; a severity that is
\* not in the table adds 1 and an issue without severity counts as Info.  So
\* {2 Critical, 1 Warning, 1 Info} scores 26, and with the default weights a
\* list holding a Critical issue scores at least 10.
C7_RiskScore ==
    pc = "scored" =>
        /\ risk_score = CountOf(issues, "Critical") * WeightOf("Critical")
                        + CountOf(issues, "Warning") * WeightOf("Warning")
                        + CountOf(issues, "Info") * WeightOf("Info")
                        + CountOf(issues, "High") * WeightOf("High")
        /\ (/\ weights = NoWeights /\ Len(issues) = 4
            /\ CountOf(issues, "Critical") = 2
            /\ CountOf(issues, "Warning") = 1
            /\ CountOf(issues, "Info") = 1) => risk_score = 26
        /\ (weights = NoWeights /\ CountOf(issues, "Critical") >= 1) => risk_score >= 10

\* A table without Info has scored a list holding an issue of a severity
\* outside the table and an issue without severity.
C7_Witness ==
    /\ pc = "scored"
    /\ weights # NoWeights /\ "Info" \notin DOMAIN weights
    /\ CountOf(issues, "High") >= 1
    /\ \E i \in 1..Len(issues) : "severity" \notin DOMAIN issues[i]
    /\ CountOf(issues, "Critical") >= 1

\* C8: summarize_issues returns exactly the keys Critical, Warning and Info;
\* each issue is counted once, under its severity when that is one of the
\* three and under Info otherwise, so the counts add up to the number of
\* issues and the empty list gives three zeros.
C8_Summary ==
    pc \in {"summarized", "scored"} =>
        /\ DOMAIN summary = {"Critical", "Warning", "Info"}
        /\ summary["Critical"] = CountOf(issues, "Critical")
        /\ summary["Warning"] = CountOf(issues, "Warning")
        /\ summary["Info"] = Len(issues) - CountOf(issues, "Critical") - CountOf(issues, "Warning")
        /\ summary["Critical"] + summary["Warning"] + summary["Info"] = Len(issues)
        /\ issues = <<>> => summary = [Critical |-> 0, Warning |-> 0, Info |-> 0]

\* A list with an issue of an unrecognized severity and one without severity
\* has been summarized.
C8_Witness ==
    /\ pc = "summarized"
    /\ CountOf(issues, "High") >= 1
    /\ \E i \in 1..Len(issues) : "severity" \notin DOMAIN issues[i]
    /\ summary["Info"] >= 2

(***************************************************************************)
(* Properties of the segmenter's bookkeeping (specification Spec).         *)
(***************************************************************************)
\* For each line the segmenter looks at, the section whose header was the
\* last one at or before the line (0 before any header).
OwnerOf(lines) ==
    [i \in 1..Len(lines) |->
        LET headers == {k \in 1..i : found_section(lines[k]) # 0}
        IN  IF headers = {} THEN 0
            ELSE found_section(lines[CHOOSE k \in headers : \A o \in headers : o <= k])]

\* What a line contributes to the open section: the text after the header
\* for a header line, the line itself otherwise.
ContentOf(line) == IF found_section(line) # 0 THEN AfterHeader(line) ELSE line

\* The content that followed the headers of section s, over all of its
\* occurrences and in order, joined by newlines.
ContentUnder(lines, s) ==
    LET owner == OwnerOf(lines)
        own == SelectSeq([i \in 1..Len(lines) |-> IF owner[i] = s THEN ContentOf(lines[i]) ELSE <<>>],
                         LAMBDA c : c # <<>>)
    IN  strip(join(<<"\n">>, own))

\* C11: when the primary pass produces the result, the body of each section
\* is the content accumulated under every occurrence of its header, in order,
\* joined by newlines and trimmed: no content line that followed a recognized
\* header is lost.
C11_ContentAppended ==
    (Extracted /\ ~FallbackUsed(full_text)) =>
        LET lines == SegmenterLines(full_text)
        IN  \A s \in 1..Len(SectionNames) :
                sections[SectionNames[s]] = ContentUnder(lines, s)

\* The index of the first header line among the segmenter's lines (0: none).
FirstHeader(lines) ==
    LET headers == {k \in 1..Len(lines) : found_section(lines[k]) # 0}
    IN  IF headers = {} THEN 0 ELSE CHOOSE k \in headers : \A o \in headers : k <= o

\* The lines of all section bodies.
BodyLines(secs) ==
    UNION {{strip(split(secs[name], <<"\n">>)[k]) : k \in 1..Len(split(secs[name], <<"\n">>))}
              : name \in DOMAIN secs}

\* C12: a line before the first recognized header line (and not repeated
\* after it) appears in no section body of the result of extract_sections,
\* whichever path produced the result.
C12_LeadingLinesDropped ==
    Extracted =>
        LET lines == SegmenterLines(full_text)
            first == FirstHeader(lines)
            bodies == BodyLines(sections)
        IN  first # 0 =>
                \A i \in 1..(first - 1) :
                    (\A j \in first..Len(lines) : lines[j] # lines[i]) => lines[i] \notin bodies

\* C13: if some line of the text matched a section header pattern,
\* extract_sections returns the result of the primary pass, never the
\* fallback classifier's.
C13_FallbackOnlyWithoutHeaders ==
    (Extracted /\ HeaderSections(full_text) # {}) => sections = primary_sections(full_text)

(***************************************************************************)
(* Specification SpecMissing: check_missing_sections called on section     *)
(* maps of any content, as a caller of nlp_rules can pass them.            *)
(***************************************************************************)
\* The most sections of a map of SpecMissing that are absent or blank.
MaxBlank == 2

\* The blank bodies: the empty string and strings of whitespace only.
BlankBodies == { <<>>, <<" ">>, <<"\n", " ">> }

\* The section map in which the sections of DOMAIN c are as c says (None: the
\* key is absent) and every other section has a body.
SectionMapOf(c) ==
    [name \in SectionSet \ {x \in DOMAIN c : c[x] = None} |->
        IF name \in DOMAIN c THEN c[name] ELSE <<"a">>]

SectionMaps(n) ==
    {SectionMapOf(c) :
        c \in UNION {[odd -> BlankBodies \cup {None}] :
                        odd \in {S \in SUBSET SectionSet : Cardinality(S) <= n}}}

\* issues = check_missing_sections(sections)
CheckMissingSections ==
    /\ pc = "extracted"
    /\ issues' = check_missing_sections(sections)
    /\ pc' = "analyzed"
    /\ UNCHANGED <<file_path, file, text, full_text, sections, weights, summary, risk_score, raised>>

InitMissing ==
    /\ file_path = None /\ file = None /\ text = None /\ full_text = None
    /\ sections \in SectionMaps(MaxBlank)
    /\ pc = "extracted" /\ issues = None
    /\ weights = NoWeights /\ summary = None /\ risk_score = None /\ raised = NoException

NextMissing == CheckMissingSections

SpecMissing == InitMissing /\ [][NextMissing]_vars

\* C14: check_missing_sections emits a missing_section issue of severity
\* Critical naming a critical section exactly when the section's key is
\* absent or its body is empty or made of whitespace only.
C14_BlankIsMissing ==
    pc = "analyzed" =>
        \A name \in SectionSet :
            (\E i \in 1..Len(issues) :
                /\ issues[i].type = "missing_section"
                /\ issues[i].section = name
                /\ issues[i].severity = "Critical")
            <=> (name \notin DOMAIN sections \/ strip(sections[name]) = <<>>)

(***************************************************************************)
(* Later occurrences of a contradiction pattern (specification SpecRules). *)
(***************************************************************************)
\* The texts the pattern's group captures, over all occurrences of the
\* pattern in t.
CapturesOf(cp, t) ==
    {Group1(t, MatchItems(cp.pattern, 1, t, i, TRUE), cp.group) : i \in Starts(cp.pattern, t)}

\* Some occurrence of one pattern and some occurrence of the other capture
\* different texts.
SomeOccurrencesDiffer(pair, t) ==
    \E c1 \in CapturesOf(pair[1], t) : \E c2 \in CapturesOf(pair[2], t) : c1 # c2

\* C15: check_contradictions decides a pattern pair from the first occurrence
\* of each pattern: equal first captures give no issue even when a later
\* occurrence differs, different first captures give exactly one issue (for
\* the first spans) however many occurrences follow; there is never more than
\* one issue for a pair, nor more than 2 in all.
C15_FirstOccurrenceDecides ==
    pc = "analyzed" =>
        /\ \A p \in 1..Len(CONTRADICTION_PATTERNS) :
              LET pair == CONTRADICTION_PATTERNS[p]
                  reported == ContradictionsOf(issues, pair)
              IN  /\ Len(reported) <= 1
                  /\ SomeOccurrencesDiffer(pair, full_text) =>
                        IF FirstCapture(pair[1], full_text) = FirstCapture(pair[2], full_text)
                        THEN reported = <<>>
                        ELSE /\ Len(reported) = 1
                             /\ QuotesBoth(reported[1].message, FirstSpan(pair[1], full_text),
                                           FirstSpan(pair[2], full_text))
        /\ Len(IssuesOfType(issues, "contradiction")) <= 2

\* A pattern occurs again with another capture after first occurrences that
\* agree, and the pair is not reported.
C15_Witness ==
    /\ pc = "analyzed"
    /\ \E p \in 1..Len(CONTRADICTION_PATTERNS) :
          LET pair == CONTRADICTION_PATTERNS[p]
          IN  /\ Starts(pair[1].pattern, full_text) # {}
              /\ Cardinality(CapturesOf(pair[2], full_text)) >= 2
              /\ FirstCapture(pair[1], full_text) = FirstCapture(pair[2], full_text)
              /\ ContradictionsOf(issues, pair) = <<>>

(***************************************************************************)
(* The lines of the normalized text (specification SpecClean).             *)
(***************************************************************************)
\* The lines of the raw text that the line filter of clean_text keeps.
SurvivingLines(t) ==
    LET lines == split(t, <<"\n">>)
    IN  SelectSeq([i \in 1..Len(lines) |-> strip(lines[i])],
                  LAMBDA line : line # <<>> /\ ~is_header_footer(line))

\* A line as it reads once its whitespace runs are collapsed and the
\* characters outside the allow-list are gone.
Canonical(line) == strip(remove_special(collapse_spaces(line)))

\* C16: the output of clean_text has no empty line (no two consecutive
\* newlines) and its lines are the surviving lines of the input, in the same
\* order; also when an input line holds only characters outside the
\* allow-list.
C16_NoEmptyLine ==
    pc = "extracted" =>
        LET out == split(full_text, <<"\n">>)
            kept == SurvivingLines(text)
        IN  /\ ~contains(full_text, <<"\n", "\n">>)
            /\ full_text # <<>> => \A i \in 1..Len(out) : out[i] # <<>>
            /\ SelectSeq([i \in 1..Len(out) |-> strip(out[i])], LAMBDA line : line # <<>>)
               = SelectSeq([i \in 1..Len(kept) |-> Canonical(kept[i])], LAMBDA line : line # <<>>)

(***************************************************************************)
(* Specification SpecFull: documents with a header line and a body line    *)
(* for each of the 9 sections, as the complete documents of the tests.     *)
(***************************************************************************)
\* The most sections of a document of SpecFull whose body line begins with a
\* word that is also a header word.
MaxHeaderWordBodies == 2

\* The header lines of the test documents, in section order.
DocHeaders ==
    << <<"P","R","O","J","E","C","T"," ","O","V","E","R","V","I","E","W">>,
       <<"S","C","O","P","E"," ","O","F"," ","W","O","R","K">>,
       <<"T","I","M","E","L","I","N","E">>,
       <<"M","A","T","E","R","I","A","L","S">>,
       <<"C","O","S","T","S">>,
       <<"P","A","Y","M","E","N","T"," ","T","E","R","M","S">>,
       <<"D","E","L","I","V","E","R","A","B","L","E","S">>,
       <<"Q","U","A","L","I","T","Y"," ","S","T","A","N","D","A","R","D","S">>,
       <<"L","E","G","A","L"," ","C","L","A","U","S","E","S">> >>

\* A body line that begins with no header word, and body lines of the test
\* documents that begin with one ("standard", "estimate").
PlainBody == <<"F","o","r","c","e"," ","m","a","j","e","u","r","e"," ","c","l","a","u","s","e","s"," ","a","p","p","l","y",".">>

HeaderWordBodies ==
    { <<"S","t","a","n","d","a","r","d"," ","c","o","n","t","r","a","c","t"," ","t","e","r","m","s",".">>,
      <<"E","s","t","i","m","a","t","e","d"," ","a","t"," ","$","1",",","0","0","0",",","0","0","0",".">> }

\* The document with, for each section, its header line followed by the body
\* line b gives it (the plain body line where b gives none).
DocOf(b) ==
    join(<<"\n">>, [k \in 1..(2 * Len(DocHeaders)) |->
                      IF k % 2 = 1 THEN DocHeaders[(k + 1) \div 2]
                      ELSE IF (k \div 2) \in DOMAIN b THEN b[k \div 2] ELSE PlainBody])

FullDocs(n) ==
    {DocOf(b) : b \in UNION {[odd -> HeaderWordBodies] :
                                odd \in {S \in SUBSET (1..Len(DocHeaders)) : Cardinality(S) <= n}}}

InitFull == InitText(FullDocs(MaxHeaderWordBodies))

SpecFull == InitFull /\ [][Next]_vars

\* Every section has its own header line in the text, followed by a
\* non-empty line that is not one of the header lines.
EveryHeaderHasBody(t) ==
    LET lines == split(t, <<"\n">>)
        headers == {DocHeaders[s] : s \in 1..Len(DocHeaders)}
    IN  \A s \in 1..Len(DocHeaders) :
            \E i \in 1..(Len(lines) - 1) :
                /\ strip(lines[i]) = DocHeaders[s]
                /\ strip(lines[i + 1]) # <<>>
                /\ strip(lines[i + 1]) \notin headers

\* C17: end to end, a document in which every one of the 9 sections has its
\* own header line followed by a non-empty body line gets no missing_section
\* issue.
C17_CompleteDocumentNoMissing ==
    (pc = "analyzed" /\ EveryHeaderHasBody(text)) => IssuesOfType(issues, "missing_section") = <<>>

(***************************************************************************)
(* Specification SpecDates: documents that state their start and           *)
(* completion dates, on lines with and without "date:".                    *)
(***************************************************************************)
\* The most lines a document of SpecDates has.
MaxDateLines == 3

DateLines ==
    { <<"S","t","a","r","t"," ","d","a","t","e",":"," ","M","a","y"," ","2","0","2","4">>,
      <<"C","o","m","p","l","e","t","i","o","n"," ","d","a","t","e",":"," ","J","u","n","e"," ","2","0","2","4">>,
      <<"C","O","M","P","L","E","T","I","O","N"," ","D","A","T","E",":"," ","M","a","y"," ","2","0","2","4">>,
      <<"s","t","a","r","t"," ","d","a","t","e"," ","M","a","y"," ","2","0","2","4">>,
      <<"c","o","m","p","l","e","t","i","o","n"," ","d","a","t","e"," ","J","u","n","e"," ","2","0","2","4">> }

InitDates == InitText(TextsOf(DateLines, MaxDateLines))

SpecDates == InitDates /\ [][Next]_vars

\* The pattern pair of start date and completion date.
DatePair == CONTRADICTION_PATTERNS[2]

\* The line contains "date:", in any letter case.
HasDateColon(line) == contains(lower(line), <<"d","a","t","e",":">>)

\* The text without its lines that contain "date:".
WithoutDateColonLines(t) ==
    join(<<"\n">>, SelectSeq(split(t, <<"\n">>), LAMBDA line : ~HasDateColon(line)))

\* The document states dates only on lines that contain "date:": no other
\* line, once normalized, has a span of either pattern of the date pair.
DatesOnlyOnDateColonLines(t) ==
    LET lines == split(t, <<"\n">>)
    IN  \A i \in 1..Len(lines) :
            (\/ Starts(DatePair[1].pattern, Canonical(lines[i])) # {}
             \/ Starts(DatePair[2].pattern, Canonical(lines[i])) # {})
            => HasDateColon(lines[i])

\* C18: clean_text discards every input line that contains "date:", so a
\* document that states its start and completion dates only on such lines
\* gets no contradiction issue for the date pair from the pipeline, although
\* check_contradictions applied to the raw text reports the pair when the
\* dates differ.
C18_DateLinesDiscarded ==
    pc = "analyzed" =>
        /\ full_text = clean_text(WithoutDateColonLines(text))
        /\ DatesOnlyOnDateColonLines(text) =>
              /\ ContradictionsOf(issues, DatePair) = <<>>
              /\ Contradicts(DatePair, text) =>
                    Len(ContradictionsOf(check_contradictions(text), DatePair)) = 1

\* A document whose dates differ and stand only on lines with "date:" has
\* been analyzed without a contradiction issue.
C18_Witness ==
    /\ pc = "analyzed"
    /\ DatesOnlyOnDateColonLines(text)
    /\ Contradicts(DatePair, text)
    /\ Len(ContradictionsOf(check_contradictions(text), DatePair)) = 1
    /\ ContradictionsOf(issues, DatePair) = <<>>

(***************************************************************************)
(* Specification SpecFallback: documents without section bodies, which the *)
(* paragraph-keyword classifier segments.                                  *)
(***************************************************************************)
\* The most lines a document of SpecFallback has.
MaxFallbackLines == 3

\* Sentences with keywords of one and of two sections, a bare header, a line
\* that clean_text empties, a header with text, and a line without keyword.
FallbackLines ==
    { <<"t","h","e"," ","b","u","d","g","e","t">>,
      <<"o","u","r"," ","t","i","m","e","l","i","n","e"," ","a","n","d"," ","s","c","o","p","e">>,
      <<"S","C","O","P","E">>,
      <<"$">>,
      <<"C","o","s","t","s",":"," ","c">>,
      <<"f","o","o">> }

InitFallback == InitText(TextsOf(FallbackLines, MaxFallbackLines))

SpecFallback == InitFallback /\ [][Next]_vars

\* The sections (indices) that have a fallback keyword somewhere in t.
KeywordSections(t) ==
    {s \in 1..Len(fallback_keywords) :
        \E k \in 1..Len(fallback_keywords[s].keywords) :
            FindSep(lower(t), fallback_keywords[s].keywords[k], 1) # 0}

\* The sections of the map that are not empty.
NonEmptySections(secs) == {name \in DOMAIN secs : secs[name] # <<>>}

\* C19: when the fallback classifier runs on a text without blank line, the
\* text is one paragraph: at most one section is non-empty, namely the first
\* section in enumeration order with a keyword in the text, its body being
\* the whole text, and check_missing_sections emits at least 8 issues.
C19_FallbackOneParagraph ==
    (pc = "analyzed" /\ FallbackUsed(full_text) /\ FindSep(full_text, <<"\n", "\n">>, 1) = 0) =>
        LET keyed == KeywordSections(full_text)
            filled == NonEmptySections(sections)
        IN  /\ Cardinality(filled) <= 1
            /\ filled = IF keyed = {} \/ full_text = <<>> THEN {}
                        ELSE {SectionNames[CHOOSE s \in keyed : \A o \in keyed : s <= o]}
            /\ \A name \in filled : sections[name] = full_text
            /\ Len(IssuesOfType(issues, "missing_section")) >= 8

\* The fallback ran on a text without blank line that has keywords of two
\* sections, and filled one section.
C19_Witness ==
    /\ pc = "analyzed"
    /\ FallbackUsed(full_text)
    /\ FindSep(full_text, <<"\n", "\n">>, 1) = 0
    /\ Cardinality(KeywordSections(full_text)) >= 2
    /\ Cardinality(NonEmptySections(sections)) = 1
    /\ Len(IssuesOfType(issues, "missing_section")) = 8
====
